---- MODULE Spec2Model ----
(***************************************************************************)
(* Model of server.js: the Express application that proxies company and    *)
(* officer lookups to the OpenCorporates API, and keeps a collection of    *)
(* users in memory.                                                        *)
(*                                                                         *)
(* Text (query values, path parameters, URLs, JSON string values) is a     *)
(* sequence of symbols; a symbol is either a delimiter of the URL syntax   *)
(* ("?", "&", "=", "/"), a space, or a run of ordinary characters          *)
(* ("Apple").                                                              *)
(* JSON values are tagged records; JSON text is a sequence of tokens.      *)
(***************************************************************************)
EXTENDS Integers, Sequences, FiniteSets, TLC

VARIABLES env, pc, req, outbound, ocResponse, data, sent, attempts, users,
          remembered

vars ==
  <<env, pc, req, outbound, ocResponse, data, sent, attempts, users,
    remembered>>

\* Longest list of entities the upstream puts in one payload.
MaxList == 2

-----------------------------------------------------------------------------
(* Text                                                                    *)

RECURSIVE Join(_, _)
\* The texts of parts, separated by sep.
Join(parts, sep) ==
  IF parts = <<>> THEN <<>>
  ELSE IF Len(parts) = 1 THEN parts[1]
  ELSE parts[1] \o sep \o Join(Tail(parts), sep)

\* Absent query parameter (undefined in req.query).
Absent == <<"(undefined)">>

\* JavaScript truthiness of a query or path parameter: undefined and ''
\* are falsy.
Truthy(s) == s # Absent /\ s # <<>>

\* Strings a caller may put in a query parameter or a (decoded) path
\* parameter.
CallerStrings ==
  { <<>>,
    <<"Apple">>,
    <<"us">>,
    <<"a", " ", "b">>,
    <<"a", "&", "api_token", "=", "evil">>,
    <<"x", "?", "api_token", "=", "evil", "&", "y", "=">> }

\* Percent-encoding of one symbol by the application/x-www-form-urlencoded
\* serializer.
EncodeSymbol(c) ==
  CASE c = "?" -> "%3F"
    [] c = "&" -> "%26"
    [] c = "=" -> "%3D"
    [] c = "/" -> "%2F"
    [] c = " " -> "+"
    [] OTHER -> c

DecodeSymbol(c) ==
  CASE c = "%3F" -> "?"
    [] c = "%26" -> "&"
    [] c = "%3D" -> "="
    [] c = "%2F" -> "/"
    [] c = "+" -> " "
    [] OTHER -> c

Encode(s) == [i \in 1..Len(s) |-> EncodeSymbol(s[i])]

Decode(s) == [i \in 1..Len(s) |-> DecodeSymbol(s[i])]

\* new URLSearchParams({...}): an ordered list of name/value pairs.
Param(name, value) == [name |-> <<name>>, value |-> value]

\* URLSearchParams.prototype.toString.
URLSearchParams_toString(params) ==
  Join([i \in 1..Len(params) |->
          Encode(params[i].name) \o <<"=">> \o Encode(params[i].value)],
       <<"&">>)

-----------------------------------------------------------------------------
(* The request target as the upstream server reads it                      *)

\* Index of the first occurrence of c in s, 0 when there is none.
IndexOf(s, c) ==
  IF \E i \in 1..Len(s) : s[i] = c
  THEN CHOOSE i \in 1..Len(s) : s[i] = c /\ \A j \in 1..(i - 1) : s[j] # c
  ELSE 0

RECURSIVE Split(_, _)
\* s cut at every occurrence of c.
Split(s, c) ==
  LET i == IndexOf(s, c) IN
  IF i = 0 THEN <<s>>
  ELSE <<SubSeq(s, 1, i - 1)>> \o Split(SubSeq(s, i + 1, Len(s)), c)

\* The query component of a request target: what follows the first "?".
QueryOf(target) ==
  LET i == IndexOf(target, "?") IN
  IF i = 0 THEN <<>> ELSE SubSeq(target, i + 1, Len(target))

\* The path component of a request target: what precedes the first "?".
PathOf(target) ==
  LET i == IndexOf(target, "?") IN
  IF i = 0 THEN target ELSE SubSeq(target, 1, i - 1)

\* One name=value field of a query, decoded.
ParseField(f) ==
  LET i == IndexOf(f, "=") IN
  IF i = 0 THEN [name |-> Decode(f), value |-> <<>>]
  ELSE [name |-> Decode(SubSeq(f, 1, i - 1)),
        value |-> Decode(SubSeq(f, i + 1, Len(f)))]

\* The parameters of a request target, in order; empty fields are skipped.
QueryParams(target) ==
  LET fields == SelectSeq(Split(QueryOf(target), "&"), LAMBDA f : f # <<>>)
  IN [i \in 1..Len(fields) |-> ParseField(fields[i])]

\* The values the target gives for one parameter name.
ValuesOf(target, name) ==
  LET ps == SelectSeq(QueryParams(target), LAMBDA p : p.name = <<name>>)
  IN [i \in 1..Len(ps) |-> ps[i].value]

-----------------------------------------------------------------------------
(* JSON values                                                             *)

JNull == [t |-> "null"]
JBool(b) == [t |-> "bool", b |-> b]
JNum(n) == [t |-> "num", n |-> n]
JStr(s) == [t |-> "str", s |-> s]
JArr(a) == [t |-> "arr", a |-> a]
\* An object is the ordered list of its members.
JObj(o) == [t |-> "obj", o |-> o]
Member(k, v) == [k |-> <<k>>, v |-> v]

IsObj(v) == v.t = "obj"
IsArr(v) == v.t = "arr"

\* key in value, for an own key of an object.
HasKey(v, k) == IsObj(v) /\ \E i \in 1..Len(v.o) : v.o[i].k = <<k>>

\* value[key]; a later duplicate of a key wins, as in JSON.parse.
Get(v, k) ==
  LET i == CHOOSE i \in 1..Len(v.o) :
             v.o[i].k = <<k>> /\ \A j \in (i + 1)..Len(v.o) : v.o[j].k # <<k>>
  IN v.o[i].v

\* The values directly inside an array or an object, in order.
Children(v) ==
  IF IsArr(v) THEN v.a
  ELSE IF IsObj(v) THEN [i \in 1..Len(v.o) |-> v.o[i].v]
  ELSE <<>>

RECURSIVE Flatten(_)
Flatten(ss) == IF ss = <<>> THEN <<>> ELSE Head(ss) \o Flatten(Tail(ss))

-----------------------------------------------------------------------------
(* JSON text: JSON.stringify and JSON.parse                                *)

Punct(s) == [k |-> "p", s |-> <<s>>, n |-> 0]
StrTok(s) == [k |-> "s", s |-> s, n |-> 0]
NumTok(n) == [k |-> "n", s |-> <<>>, n |-> n]
Word(s) == [k |-> "w", s |-> <<s>>, n |-> 0]

RECURSIVE JSON_stringify(_)
\* The text of a value.
JSON_stringify(v) ==
  CASE v.t = "null" -> <<Word("null")>>
    [] v.t = "bool" -> <<Word(IF v.b THEN "true" ELSE "false")>>
    [] v.t = "num" -> <<NumTok(v.n)>>
    [] v.t = "str" -> <<StrTok(v.s)>>
    [] v.t = "arr" ->
         <<Punct("[")>>
         \o Join([i \in 1..Len(v.a) |-> JSON_stringify(v.a[i])], <<Punct(",")>>)
         \o <<Punct("]")>>
    [] v.t = "obj" ->
         <<Punct("{")>>
         \o Join([i \in 1..Len(v.o) |->
                    <<StrTok(v.o[i].k), Punct(":")>> \o JSON_stringify(v.o[i].v)],
                 <<Punct(",")>>)
         \o <<Punct("}")>>

\* Result of reading one value off the front of a text.
ParseFail == [ok |-> FALSE, v |-> JNull, rest |-> <<>>]
ParseOk(v, rest) == [ok |-> TRUE, v |-> v, rest |-> rest]

\* obj with key k set to v: a repeated key replaces the earlier value.
SetMember(o, k, v) ==
  IF \E i \in 1..Len(o) : o[i].k = k
  THEN [i \in 1..Len(o) |-> IF o[i].k = k THEN [k |-> k, v |-> v] ELSE o[i]]
  ELSE Append(o, [k |-> k, v |-> v])

RECURSIVE ParseValue(_), ParseElements(_, _), ParseMembers(_, _)

\* value
ParseValue(toks) ==
  IF toks = <<>> THEN ParseFail
  ELSE
    LET h == Head(toks)
        r == Tail(toks)
    IN CASE h.k = "s" -> ParseOk(JStr(h.s), r)
         [] h.k = "n" -> ParseOk(JNum(h.n), r)
         [] h = Word("null") -> ParseOk(JNull, r)
         [] h = Word("true") -> ParseOk(JBool(TRUE), r)
         [] h = Word("false") -> ParseOk(JBool(FALSE), r)
         [] h = Punct("[") ->
              IF r # <<>> /\ Head(r) = Punct("]")
              THEN ParseOk(JArr(<<>>), Tail(r))
              ELSE ParseElements(r, <<>>)
         [] h = Punct("{") ->
              IF r # <<>> /\ Head(r) = Punct("}")
              THEN ParseOk(JObj(<<>>), Tail(r))
              ELSE ParseMembers(r, <<>>)
         [] OTHER -> ParseFail

\* value ("," value)* "]", after the elements in acc
ParseElements(toks, acc) ==
  LET e == ParseValue(toks) IN
  IF ~e.ok \/ e.rest = <<>> THEN ParseFail
  ELSE IF Head(e.rest) = Punct("]")
       THEN ParseOk(JArr(Append(acc, e.v)), Tail(e.rest))
  ELSE IF Head(e.rest) = Punct(",")
       THEN ParseElements(Tail(e.rest), Append(acc, e.v))
  ELSE ParseFail

\* string ":" value ("," string ":" value)* "}", after the members in acc
ParseMembers(toks, acc) ==
  IF Len(toks) < 3 \/ toks[1].k # "s" \/ toks[2] # Punct(":") THEN ParseFail
  ELSE
    LET e == ParseValue(SubSeq(toks, 3, Len(toks))) IN
    IF ~e.ok \/ e.rest = <<>> THEN ParseFail
    ELSE IF Head(e.rest) = Punct("}")
         THEN ParseOk(JObj(SetMember(acc, toks[1].s, e.v)), Tail(e.rest))
    ELSE IF Head(e.rest) = Punct(",")
         THEN ParseMembers(Tail(e.rest), SetMember(acc, toks[1].s, e.v))
    ELSE ParseFail

\* JSON.parse(text): a value, or a SyntaxError when text is not exactly one
\* value.
JSON_parse(text) ==
  LET p == ParseValue(text) IN
  IF p.ok /\ p.rest = <<>> THEN [ok |-> TRUE, v |-> p.v]
  ELSE [ok |-> FALSE, v |-> JNull]

-----------------------------------------------------------------------------
(* jsonpath: jp.query(obj, path)                                           *)

Child(key) == [op |-> "child", key |-> key]
Descendant(key) == [op |-> "descendant", key |-> key]

\* $.key on one node: the member, when the node is an object that has it.
ChildStep(v, key) == IF HasKey(v, key) THEN <<Get(v, key)>> ELSE <<>>

RECURSIVE DescendantStep(_, _)
\* $..key on one node: the matching members of the node first, then the
\* matches below each of its children, in order.
DescendantStep(v, key) ==
  LET here == IF IsObj(v)
              THEN LET ms == SelectSeq(v.o, LAMBDA m : m.k = <<key>>)
                   IN [i \in 1..Len(ms) |-> ms[i].v]
              ELSE <<>>
      kids == Children(v)
  IN here \o Flatten([i \in 1..Len(kids) |-> DescendantStep(kids[i], key)])

RECURSIVE Nodes(_, _)
\* The nodes a path selects, starting from the nodes vs.
Nodes(vs, path) ==
  IF path = <<>> THEN vs
  ELSE LET step == Head(path)
           next == Flatten([i \in 1..Len(vs) |->
                     IF step.op = "child" THEN ChildStep(vs[i], step.key)
                     ELSE DescendantStep(vs[i], step.key)])
       IN Nodes(next, Tail(path))

\* jp.query: the values the path selects; it asserts that obj is an Object
\* (an object or an array) and throws otherwise.
jp_query(obj, path) ==
  IF IsObj(obj) \/ IsArr(obj)
  THEN [ok |-> TRUE, values |-> Nodes(<<obj>>, path)]
  ELSE [ok |-> FALSE, values |-> <<>>]

CompaniesPath == <<Child("results"), Child("companies"), Descendant("company")>>
CompanyPath == <<Child("results"), Child("company")>>
CompanyOfficersPath ==
  <<Child("results"), Child("company"), Child("officers"), Descendant("officer")>>
BeneficialOwnersPath ==
  <<Child("results"), Child("company"), Child("ultimate_beneficial_owners"),
    Descendant("ultimate_beneficial_owner")>>
FilingsPath ==
  <<Child("results"), Child("company"), Child("filings"), Descendant("filing")>>
OfficersPath == <<Child("results"), Child("officers"), Descendant("officer")>>

-----------------------------------------------------------------------------
(* Configuration and inbound requests                                      *)

\* process.env: the credential (unset or set) and the mode.
Environments ==
  [OPEN_CORPORATES_KEY : {Absent, <<"secret">>},
   NODE_ENV : {"development", "production"}]

Seg(s) == <<s>>

Lit(s) == [param |-> FALSE, name |-> s]
Var(s) == [param |-> TRUE, name |-> s]

\* The routes of the application, in registration order.
Routes ==
  << [method |-> "GET", pattern |-> <<Lit("api"), Lit("health")>>,
      handler |-> "health"],
     [method |-> "GET", pattern |-> <<Lit("api"), Lit("users")>>,
      handler |-> "getUsers"],
     [method |-> "GET", pattern |-> <<Lit("api"), Lit("users"), Var("id")>>,
      handler |-> "getUser"],
     [method |-> "POST", pattern |-> <<Lit("api"), Lit("users")>>,
      handler |-> "createUser"],
     [method |-> "GET", pattern |-> <<Lit("api"), Lit("posts")>>,
      handler |-> "getPosts"],
     [method |-> "PUT", pattern |-> <<Lit("api"), Lit("posts"), Var("id")>>,
      handler |-> "updatePost"],
     [method |-> "DELETE", pattern |-> <<Lit("api"), Lit("users"), Var("id")>>,
      handler |-> "deleteUser"],
     [method |-> "GET",
      pattern |-> <<Lit("api"), Lit("companies"), Lit("search")>>,
      handler |-> "companiesSearch"],
     [method |-> "GET",
      pattern |-> <<Lit("api"), Lit("companies"), Var("jurisdiction_code"),
                    Var("company_number")>>,
      handler |-> "companyDetails"],
     [method |-> "GET",
      pattern |-> <<Lit("api"), Lit("officers"), Lit("search")>>,
      handler |-> "officersSearch"] >>

\* Whether a route's pattern matches a method and a path; a parameter
\* matches any non-empty segment.
Matches(route, method, path) ==
  /\ route.method = method
  /\ Len(route.pattern) = Len(path)
  /\ \A i \in 1..Len(path) :
       IF route.pattern[i].param THEN path[i] # <<>>
       ELSE path[i] = Seg(route.pattern[i].name)

\* The handler express dispatches a request to: the first matching route,
\* else the 404 handler.
Route(r) ==
  IF \E i \in 1..Len(Routes) : Matches(Routes[i], r.method, r.path)
  THEN Routes[CHOOSE i \in 1..Len(Routes) :
                /\ Matches(Routes[i], r.method, r.path)
                /\ \A j \in 1..(i - 1) : ~Matches(Routes[j], r.method, r.path)
             ].handler
  ELSE "notFound"

NoQuery == [q |-> Absent, jurisdiction_code |-> Absent]

\* req.body of a request without one.
NoBody == [name |-> Absent, email |-> Absent]

NoReq == [method |-> "", path |-> <<>>, query |-> NoQuery, body |-> NoBody]

PathParams == CallerStrings \ {<<>>}

\* The inbound requests considered.
Requests ==
  [method : {"GET"},
   path : { <<Seg("api"), Seg("companies"), Seg("search")>>,
            <<Seg("api"), Seg("officers"), Seg("search")>> },
   query : [q : CallerStrings \cup {Absent},
            jurisdiction_code : {Absent, <<>>, <<"us">>, <<"g", "&", "b">>}],
   body : {NoBody}]
  \cup
  { [method |-> "GET",
     path |-> <<Seg("api"), Seg("companies"), jc, cn>>,
     query |-> NoQuery, body |-> NoBody] : jc \in PathParams, cn \in PathParams }
  \cup
  { [method |-> "GET", path |-> p, query |-> NoQuery, body |-> NoBody] :
      p \in { <<Seg("api"), Seg("officers"), Seg("123456")>>,
              <<Seg("api"), Seg("person"), Seg("search")>>,
              <<Seg("api"), Seg("companies")>> } }

-----------------------------------------------------------------------------
(* What the upstream API may answer                                        *)

Str(s) == JStr(<<s>>)

PlainCompany == JObj(<<Member("name", Str("Apple Inc"))>>)

\* A company carrying the URL field at its top level and one level down.
UrlCompany ==
  JObj(<<Member("name", Str("Apple Inc")),
         Member("opencorporates_url", Str("http://x")),
         Member("source", JObj(<<Member("opencorporates_url", Str("http://y"))>>))>>)

PlainOfficer == JObj(<<Member("name", Str("John Doe"))>>)

UrlOfficer ==
  JObj(<<Member("name", Str("John Doe")),
         Member("opencorporates_url", Str("http://z"))>>)

Owner == JObj(<<Member("name", Str("Jane Roe"))>>)

Filing == JObj(<<Member("title", Str("Annual Report"))>>)

\* Lists of at most MaxList entities of the given kinds.
ListsOf(kinds) == UNION {[1..n -> kinds] : n \in 0..MaxList}

\* [{key: e1}, {key: e2}, ...]
Wrapped(key, es) == JArr([i \in 1..Len(es) |-> JObj(<<Member(key, es[i])>>)])

Repeat(e, n) == [i \in 1..n |-> e]

Results(o) == JObj(<<Member("results", o)>>)

CompanySearchPayloads ==
  { Results(JObj(<<Member("companies", Wrapped("company", cs))>>)) :
      cs \in ListsOf({PlainCompany, UrlCompany}) }

OfficerSearchPayloads ==
  { Results(JObj(<<Member("officers", Wrapped("officer", os))>>)) :
      os \in ListsOf({PlainOfficer, UrlOfficer}) }

CompanyDetailsPayloads ==
  { Results(JObj(<<Member("company",
      JObj(<<Member("name", Str("Apple Inc")),
             Member("opencorporates_url", Str("http://x")),
             Member("officers", Wrapped("officer", Repeat(UrlOfficer, i))),
             Member("ultimate_beneficial_owners",
                    Wrapped("ultimate_beneficial_owner", Repeat(Owner, j))),
             Member("filings", Wrapped("filing", Repeat(Filing, k)))>>))>>)) :
      i \in 0..MaxList, j \in {0, 2}, k \in 0..1 }

OtherPayloads ==
  { JNull, JNum(42), Str("gateway"), JArr(<<>>), JObj(<<>>),
    Results(JNull),
    JObj(<<Member("error", Str("not found"))>>) }

UpstreamPayloads ==
  CompanySearchPayloads \cup OfficerSearchPayloads
  \cup CompanyDetailsPayloads \cup OtherPayloads

\* Bodies that are not JSON: an empty body, an HTML error page, a body cut
\* short.
BrokenBodies == { <<>>, <<Word("<html>")>>, <<Punct("{"), StrTok(<<"results">>)>> }

Bodies == {JSON_stringify(v) : v \in UpstreamPayloads} \cup BrokenBodies

Statuses == {200, 201, 404}

\* The 'data' events a body arrives in: one chunk, or two.
Chunkings(text) ==
  IF text = <<>> THEN {<<>>}
  ELSE {<<text>>}
       \cup (IF Len(text) < 2 THEN {}
             ELSE LET h == Len(text) \div 2
                  IN {<<SubSeq(text, 1, h), SubSeq(text, h + 1, Len(text))>>})

\* complete: the whole message has been received (set when 'end' fires).
NoResponse == [statusCode |-> 0, chunks |-> <<>>, complete |-> FALSE]

-----------------------------------------------------------------------------
(* Responses                                                               *)

JUndefined == [t |-> "undefined"]

\* res.json(body): JSON.stringify leaves out the members whose value is
\* undefined.
res_json(body) ==
  IF IsObj(body)
  THEN JObj(SelectSeq(body.o, LAMBDA m : m.v # JUndefined))
  ELSE body

\* res.status(status).json(body)
Response(status, body) == [status |-> status, body |-> res_json(body)]

Failure(message) ==
  <<Member("success", JBool(FALSE)), Member("message", Str(message))>>

\* ErrorDetail without the look at NODE_ENV.
ErrorDetail_Always(e, message) == Str(message)

\* process.env.NODE_ENV === 'development' ? error.message : undefined
ErrorDetail(e, message) ==
  IF e.NODE_ENV = "development" THEN Str(message) ELSE JUndefined

MissingQ ==
  Response(400, JObj(Failure("Missing required parameter: q (query) is required")))

MissingPathParams ==
  Response(400, JObj(Failure(
    "Missing required parameters: jurisdiction_code and company_number are required")))

TokenNotConfigured ==
  Response(500, JObj(Failure(
    "OpenCorporates API token not configured. Please set OPEN_CORPORATES_KEY in .env file")))

\* The catch branch of an 'end' callback.
ProcessingError(e, message) ==
  Response(500, JObj(Failure("Error processing OpenCorporates API response")
                     \o <<Member("error", ErrorDetail(e, message))>>))

\* The 'error' callback of the outbound request.
ConnectionError(e, message) ==
  Response(500, JObj(Failure("Error connecting to OpenCorporates API")
                     \o <<Member("error", ErrorDetail(e, message))>>))

EndpointNotFound == Response(404, JObj(Failure("Endpoint not found")))

\* The error-handling middleware, which express runs when a handler throws.
InternalServerError(e, message) ==
  Response(500, JObj(Failure("Internal server error")
                     \o <<Member("error", ErrorDetail(e, message))>>))

Respond(response) == [kind |-> "respond", response |-> response, target |-> <<>>]
Request(target) ==
  [kind |-> "request", response |-> Response(0, JNull), target |-> target]
Throw(message) ==
  [kind |-> "throw", response |-> Response(0, JNull), target |-> <<message>>]

\* Characters https.request refuses in a path: a space, a control
\* character, a character above U+00FF.
Unescaped == {" "}

\* https.request(options, callback): the constructor of the request throws
\* on a path with such a character, before anything is sent.
https_request(target) ==
  IF \E i \in 1..Len(target) : target[i] \in Unescaped
  THEN Throw("Request path contains unescaped characters")
  ELSE Request(target)

-----------------------------------------------------------------------------
(* GET /api/companies/search                                               *)

CompaniesSearchParams(q, apiToken) ==
  <<Param("q", q), Param("api_token", apiToken)>>

CompaniesSearchTarget(q, apiToken) ==
  <<"/v0.4/companies/search", "?">>
  \o URLSearchParams_toString(CompaniesSearchParams(q, apiToken))

\* CompaniesSearchStart without the check of the credential.
CompaniesSearchStart_TokenUnchecked(r, e) ==
  IF ~Truthy(r.query.q) THEN Respond(MissingQ)
  ELSE https_request(CompaniesSearchTarget(r.query.q, e.OPEN_CORPORATES_KEY))

\* The handler up to ocRequest.end(): a response, the outbound request, or
\* a throw of https.request.
CompaniesSearchStart(r, e) ==
  IF ~Truthy(r.query.q) THEN Respond(MissingQ)
  ELSE IF ~Truthy(e.OPEN_CORPORATES_KEY) THEN Respond(TokenNotConfigured)
  ELSE https_request(CompaniesSearchTarget(r.query.q, e.OPEN_CORPORATES_KEY))

\* The 'end' callback of the upstream response.
CompaniesSearchEnd(r, e, statusCode, text) ==
  LET payload == JSON_parse(text) IN
  IF ~payload.ok THEN ProcessingError(e, "Unexpected end of JSON input")
  ELSE
    LET companies == jp_query(payload.v, CompaniesPath) IN
    IF ~companies.ok THEN ProcessingError(e, "obj needs to be an object")
    ELSE Response(200,
           JObj(<<Member("success", JBool(TRUE)),
                  Member("count", JNum(Len(companies.values))),
                  Member("data", JArr(companies.values)),
                  Member("query", JStr(r.query.q))>>))

-----------------------------------------------------------------------------
(* GET /api/companies/:jurisdiction_code/:company_number                   *)

CompanyDetailsTarget(jurisdiction_code, company_number, apiToken) ==
  <<"/v0.4/companies/">> \o jurisdiction_code \o <<"/">> \o company_number
  \o <<"?", "api_token", "=">> \o apiToken

CompanyDetailsStart(r, e) ==
  LET jurisdiction_code == r.path[3]
      company_number == r.path[4]
  IN IF ~Truthy(jurisdiction_code) \/ ~Truthy(company_number)
     THEN Respond(MissingPathParams)
     ELSE IF ~Truthy(e.OPEN_CORPORATES_KEY) THEN Respond(TokenNotConfigured)
     ELSE https_request(CompanyDetailsTarget(jurisdiction_code, company_number,
                                                  e.OPEN_CORPORATES_KEY))

\* ocResponse.statusCode !== 200
IsUpstreamError(statusCode) == statusCode # 200

\* UpstreamError without res.status(ocResponse.statusCode).
UpstreamError_StatusNotSet(statusCode, payload) ==
  Response(200,
    JObj(Failure("Error from OpenCorporates API") \o <<Member("data", payload)>>))

UpstreamError(statusCode, payload) ==
  Response(statusCode,
    JObj(Failure("Error from OpenCorporates API") \o <<Member("data", payload)>>))

\* Counts with the length of beneficialOwners given for filings too.
Counts_FilingsFromOwners(officers, beneficialOwners, filings) ==
  JObj(<<Member("officers", JNum(Len(officers))),
         Member("beneficialOwners", JNum(Len(beneficialOwners))),
         Member("filings", JNum(Len(beneficialOwners)))>>)

\* counts: { officers: officers.length, ... }
Counts(officers, beneficialOwners, filings) ==
  JObj(<<Member("officers", JNum(Len(officers))),
         Member("beneficialOwners", JNum(Len(beneficialOwners))),
         Member("filings", JNum(Len(filings)))>>)

CompanyDetailsEnd(r, e, statusCode, text) ==
  LET payload == JSON_parse(text) IN
  IF ~payload.ok THEN ProcessingError(e, "Unexpected end of JSON input")
  ELSE IF IsUpstreamError(statusCode) THEN UpstreamError(statusCode, payload.v)
  ELSE
    LET company == jp_query(payload.v, CompanyPath)
        officers == jp_query(payload.v, CompanyOfficersPath)
        beneficialOwners == jp_query(payload.v, BeneficialOwnersPath)
        filings == jp_query(payload.v, FilingsPath)
    IN IF ~company.ok THEN ProcessingError(e, "obj needs to be an object")
       ELSE Response(200,
         JObj(<<Member("success", JBool(TRUE)),
                Member("data",
                  JObj(<<Member("company",
                           IF Len(company.values) > 0 THEN company.values[1]
                           ELSE JNull),
                         Member("officers", JArr(officers.values)),
                         Member("beneficialOwners", JArr(beneficialOwners.values)),
                         Member("filings", JArr(filings.values)),
                         Member("counts",
                           Counts(officers.values, beneficialOwners.values,
                                  filings.values))>>)),
                Member("jurisdiction_code", JStr(r.path[3])),
                Member("company_number", JStr(r.path[4]))>>))

-----------------------------------------------------------------------------
(* GET /api/officers/search                                                *)

OfficersSearchParams(q, jurisdiction_code, apiToken) ==
  <<Param("q", q), Param("api_token", apiToken)>>
  \o (IF Truthy(jurisdiction_code)
      THEN <<Param("jurisdiction_code", jurisdiction_code)>>
      ELSE <<>>)

OfficersSearchTarget(q, jurisdiction_code, apiToken) ==
  <<"/v0.4/officers/search", "?">>
  \o URLSearchParams_toString(OfficersSearchParams(q, jurisdiction_code, apiToken))

\* OfficersSearchStart with the credential checked before q.
OfficersSearchStart_TokenFirst(r, e) ==
  IF ~Truthy(e.OPEN_CORPORATES_KEY) THEN Respond(TokenNotConfigured)
  ELSE IF ~Truthy(r.query.q) THEN Respond(MissingQ)
  ELSE https_request(OfficersSearchTarget(r.query.q, r.query.jurisdiction_code,
                                          e.OPEN_CORPORATES_KEY))

OfficersSearchStart(r, e) ==
  IF ~Truthy(r.query.q) THEN Respond(MissingQ)
  ELSE IF ~Truthy(e.OPEN_CORPORATES_KEY) THEN Respond(TokenNotConfigured)
  ELSE https_request(OfficersSearchTarget(r.query.q, r.query.jurisdiction_code,
                                          e.OPEN_CORPORATES_KEY))

OfficersSearchEnd(r, e, statusCode, text) ==
  LET payload == JSON_parse(text) IN
  IF ~payload.ok THEN ProcessingError(e, "Unexpected end of JSON input")
  ELSE
    LET officers == jp_query(payload.v, OfficersPath) IN
    IF ~officers.ok THEN ProcessingError(e, "obj needs to be an object")
    ELSE Response(200,
           JObj(<<Member("success", JBool(TRUE)),
                  Member("count", JNum(Len(officers.values))),
                  Member("data", JArr(officers.values)),
                  Member("query", JStr(r.query.q))>>
                \o (IF Truthy(r.query.jurisdiction_code)
                    THEN <<Member("jurisdiction_code",
                                  JStr(r.query.jurisdiction_code))>>
                    ELSE <<>>)))

-----------------------------------------------------------------------------
(* The users collection and its handlers                                   *)

\* Most users the collection is let grow to.
MaxUsers == 3

\* let users = [...]: the collection the process starts with.
InitialUsers ==
  << [id |-> 1, name |-> <<"John Doe">>, email |-> <<"john@example.com">>],
     [id |-> 2, name |-> <<"Jane Smith">>, email |-> <<"jane@example.com">>] >>

UserJson(u) ==
  JObj(<<Member("id", JNum(u.id)), Member("name", JStr(u.name)),
         Member("email", JStr(u.email))>>)

UsersJson(store) == JArr([i \in 1..Len(store) |-> UserJson(store[i])])

\* What a handler of the collection does: its response, and the collection
\* it leaves.
Outcome(response, store) == [response |-> response, users |-> store]

\* GET /api/users
GetUsersHandler(r, store) ==
  Outcome(Response(200, JObj(<<Member("success", JBool(TRUE)),
                               Member("count", JNum(Len(store))),
                               Member("data", UsersJson(store))>>)),
          store)

\* The id of a new user (users.length + 1).
NewUserId(store) == Len(store) + 1

\* POST /api/users
CreateUserHandler(r, store) ==
  IF ~Truthy(r.body.name) \/ ~Truthy(r.body.email)
  THEN Outcome(Response(400, JObj(Failure("Name and email are required"))), store)
  ELSE LET newUser == [id |-> NewUserId(store), name |-> r.body.name,
                       email |-> r.body.email]
       IN Outcome(Response(201, JObj(<<Member("success", JBool(TRUE)),
                                       Member("message",
                                              Str("User created successfully")),
                                       Member("data", UserJson(newUser))>>)),
                  Append(store, newUser))

\* parseInt of a path parameter, for the numbers of one digit; nan marks
\* NaN, which equals no id.
ParseInt(s) ==
  IF s # <<>> /\ \E n \in 0..9 : ToString(n) = s[1]
  THEN [nan |-> FALSE, n |-> CHOOSE n \in 0..9 : ToString(n) = s[1]]
  ELSE [nan |-> TRUE, n |-> 0]

\* users.findIndex(u => u.id === userId), counted from 1; 0 where
\* findIndex gives -1.
FindIndex(store, userId) ==
  LET found == {i \in 1..Len(store) : ~userId.nan /\ store[i].id = userId.n}
  IN IF found = {} THEN 0
     ELSE CHOOSE i \in found : \A j \in found : i <= j

\* users.splice(userIndex, 1)
Splice(store, i) == SubSeq(store, 1, i - 1) \o SubSeq(store, i + 1, Len(store))

\* DELETE /api/users/:id
DeleteUserHandler(r, store) ==
  LET userId == ParseInt(r.path[3])
      userIndex == FindIndex(store, userId)
  IN IF userIndex = 0
     THEN Outcome(Response(404, JObj(Failure("User not found"))), store)
     ELSE Outcome(Response(200, JObj(<<Member("success", JBool(TRUE)),
                                       Member("message",
                                              Str("User deleted successfully")),
                                       Member("data", UserJson(store[userIndex]))>>)),
                  Splice(store, userIndex))

\* The requests to the collection considered.
UsersRequests ==
  { [method |-> "GET", path |-> <<Seg("api"), Seg("users")>>,
     query |-> NoQuery, body |-> NoBody] }
  \cup
  [method : {"POST"}, path : {<<Seg("api"), Seg("users")>>}, query : {NoQuery},
   body : [name : {Absent, <<"Ann">>}, email : {<<"ann@example.com">>}]]
  \cup
  { [method |-> "DELETE", path |-> <<Seg("api"), Seg("users"), id>>,
     query |-> NoQuery, body |-> NoBody] :
      id \in {Seg(ToString(n)) : n \in 1..MaxUsers} \cup {Seg("x")} }

-----------------------------------------------------------------------------
(* The state machine: one inbound request at a time, from its arrival to   *)
(* its response                                                            *)

\* attempts counts the callbacks of the current request that have called
\* res.json; sent holds the responses the caller received. remembered is
\* an observer's note of one earlier exchange; no handler reads it.
Init ==
  /\ env \in Environments
  /\ pc = "idle"
  /\ req = NoReq
  /\ outbound = <<>>
  /\ ocResponse = NoResponse
  /\ data = <<>>
  /\ sent = <<>>
  /\ attempts = 0
  /\ users = InitialUsers
  /\ remembered = {}

\* Handle where a handler that has answered goes on to issue the outbound
\* request (res.status(..).json(..) without return).
Handle_NoReturn(r, start) ==
  /\ req' = r
  /\ sent' = IF start.kind = "respond" THEN Append(sent, start.response)
             ELSE IF start.kind = "throw"
                  THEN Append(sent, InternalServerError(env, start.target[1]))
                  ELSE sent
  /\ attempts' = IF start.kind = "request" THEN attempts ELSE attempts + 1
  /\ outbound' = IF start.kind = "throw" THEN outbound
                 ELSE Append(outbound, [method |-> "GET", path |-> start.target])
  /\ pc' = IF start.kind = "request" THEN "waiting" ELSE "done"
  /\ UNCHANGED <<env, ocResponse, data, users, remembered>>

\* A handler runs up to its return: it answers, or it issues the outbound
\* request and waits, or it throws and the error-handling middleware
\* answers.
Handle(r, start) ==
  /\ req' = r
  /\ CASE start.kind = "respond" ->
            /\ sent' = Append(sent, start.response)
            /\ attempts' = attempts + 1
            /\ outbound' = outbound
            /\ pc' = "done"
       [] start.kind = "throw" ->
            /\ sent' = Append(sent, InternalServerError(env, start.target[1]))
            /\ attempts' = attempts + 1
            /\ outbound' = outbound
            /\ pc' = "done"
       [] start.kind = "request" ->
            /\ outbound' = Append(outbound,
                                  [method |-> "GET", path |-> start.target])
            /\ sent' = sent
            /\ attempts' = attempts
            /\ pc' = "waiting"
  /\ UNCHANGED <<env, ocResponse, data, users, remembered>>

CompaniesSearchOf(R) ==
  \E r \in R :
    /\ pc = "idle"
    /\ Route(r) = "companiesSearch"
    /\ Handle(r, CompaniesSearchStart(r, env))

CompanyDetailsOf(R) ==
  \E r \in R :
    /\ pc = "idle"
    /\ Route(r) = "companyDetails"
    /\ Handle(r, CompanyDetailsStart(r, env))

OfficersSearchOf(R) ==
  \E r \in R :
    /\ pc = "idle"
    /\ Route(r) = "officersSearch"
    /\ Handle(r, OfficersSearchStart(r, env))

\* The 404 handler, reached when no route matches.
NotFoundOf(R) ==
  \E r \in R :
    /\ pc = "idle"
    /\ Route(r) = "notFound"
    /\ Handle(r, Respond(EndpointNotFound))

CompaniesSearch == CompaniesSearchOf(Requests)

CompanyDetails == CompanyDetailsOf(Requests)

OfficersSearch == OfficersSearchOf(Requests)

NotFound == NotFoundOf(Requests)

\* The upstream answers: the https.request callback runs (let data = '').
OcResponseOf(S, B) ==
  \E statusCode \in S, body \in B :
    \E chunks \in Chunkings(body) :
      /\ pc = "waiting"
      /\ ocResponse' = [statusCode |-> statusCode, chunks |-> chunks,
                        complete |-> FALSE]
      /\ data' = <<>>
      /\ pc' = "receiving"
      /\ UNCHANGED <<env, req, outbound, sent, attempts, users, remembered>>

OcResponse == OcResponseOf(Statuses, Bodies)

\* ocResponse.on('data'): data += chunk
OcData ==
  /\ pc = "receiving"
  /\ ocResponse.chunks # <<>>
  /\ data' = data \o Head(ocResponse.chunks)
  /\ ocResponse' = [ocResponse EXCEPT !.chunks = Tail(@)]
  /\ UNCHANGED <<env, pc, req, outbound, sent, attempts, users, remembered>>

\* ocResponse.on('end')
OcEnd(handler, response) ==
  /\ pc = "receiving"
  /\ ocResponse.chunks = <<>>
  /\ Route(req) = handler
  /\ ocResponse' = [ocResponse EXCEPT !.complete = TRUE]
  /\ sent' = Append(sent, response)
  /\ attempts' = attempts + 1
  /\ pc' = "done"
  /\ UNCHANGED <<env, req, outbound, data, users, remembered>>

CompaniesSearchOnEnd ==
  OcEnd("companiesSearch",
        CompaniesSearchEnd(req, env, ocResponse.statusCode, data))

CompanyDetailsOnEnd ==
  OcEnd("companyDetails",
        CompanyDetailsEnd(req, env, ocResponse.statusCode, data))

OfficersSearchOnEnd ==
  OcEnd("officersSearch",
        OfficersSearchEnd(req, env, ocResponse.statusCode, data))

\* ocRequest.on('error'): the connection fails before the response, or
\* while its body is arriving.
OcError ==
  /\ pc \in {"waiting", "receiving"}
  /\ sent' = Append(sent, ConnectionError(env, "socket hang up"))
  /\ attempts' = attempts + 1
  /\ pc' = "done"
  /\ UNCHANGED <<env, req, outbound, ocResponse, data, users, remembered>>

\* ocRequest.on('error') after 'end' has answered (the socket fails once
\* the body is in): the callback calls res.status(500).json again; the
\* headers are sent, nothing more reaches the caller.
OcErrorAfterEnd ==
  /\ pc = "done"
  /\ ocResponse.complete
  /\ attempts = 1
  /\ attempts' = attempts + 1
  /\ UNCHANGED <<env, pc, req, outbound, ocResponse, data, sent, users,
                 remembered>>

\* ocResponse.on('end') after 'error' has answered (the socket fails while
\* a body without a length is arriving, and the parser closes the message):
\* the callback calls res.json again.
OcEndAfterError ==
  /\ pc = "done"
  /\ ocResponse.statusCode # 0
  /\ ~ocResponse.complete
  /\ attempts = 1
  /\ attempts' = attempts + 1
  /\ UNCHANGED <<env, pc, req, outbound, ocResponse, data, sent, users,
                 remembered>>

\* Finish where the response object outlives the request.
Finish_KeepsSent ==
  /\ pc = "done"
  /\ pc' = "idle"
  /\ req' = NoReq
  /\ outbound' = <<>>
  /\ ocResponse' = NoResponse
  /\ data' = <<>>
  /\ attempts' = 0
  /\ UNCHANGED <<env, sent, users, remembered>>

\* The request is over; its objects are discarded.
Finish ==
  /\ pc = "done"
  /\ pc' = "idle"
  /\ req' = NoReq
  /\ outbound' = <<>>
  /\ ocResponse' = NoResponse
  /\ data' = <<>>
  /\ sent' = <<>>
  /\ attempts' = 0
  /\ UNCHANGED <<env, users, remembered>>

Next ==
  \/ CompaniesSearch
  \/ CompanyDetails
  \/ OfficersSearch
  \/ NotFound
  \/ OcResponse
  \/ OcData
  \/ CompaniesSearchOnEnd
  \/ CompanyDetailsOnEnd
  \/ OfficersSearchOnEnd
  \/ OcError
  \/ OcErrorAfterEnd
  \/ OcEndAfterError
  \/ Finish

Spec == Init /\ [][Next]_vars

-----------------------------------------------------------------------------
(* The users collection across requests                                    *)

\* A handler of the collection runs: it answers, and leaves the collection
\* as it made it. The collection is let grow to MaxUsers.
HandleUsers(r, outcome) ==
  /\ Len(outcome.users) <= MaxUsers
  /\ req' = r
  /\ sent' = Append(sent, outcome.response)
  /\ attempts' = attempts + 1
  /\ users' = outcome.users
  /\ pc' = "done"
  /\ UNCHANGED <<env, outbound, ocResponse, data, remembered>>

GetUsers ==
  \E r \in UsersRequests :
    /\ pc = "idle"
    /\ Route(r) = "getUsers"
    /\ HandleUsers(r, GetUsersHandler(r, users))

CreateUser ==
  \E r \in UsersRequests :
    /\ pc = "idle"
    /\ Route(r) = "createUser"
    /\ HandleUsers(r, CreateUserHandler(r, users))

DeleteUser ==
  \E r \in UsersRequests :
    /\ pc = "idle"
    /\ Route(r) = "deleteUser"
    /\ HandleUsers(r, DeleteUserHandler(r, users))

\* The requests to the three endpoints and the upstream answers considered
\* beside those to the collection.
StoreRequests ==
  { r \in Requests :
      /\ r.query.q \in {Absent, <<"Apple">>}
      /\ r.query.jurisdiction_code = Absent
      /\ Route(r) = "companyDetails"
           => (r.path[3] = <<"us">> /\ r.path[4] = <<"Apple">>)
      /\ Route(r) # "notFound" }

StoreStatuses == {200, 404}

StoreBodies ==
  { JSON_stringify(Results(JObj(<<Member("company", PlainCompany)>>))),
    <<Word("<html>")>> }

\* What the exchange in progress was made of: the request, and what the
\* upstream did.
Exchange ==
  [req |-> req,
   statusCode |-> ocResponse.statusCode,
   complete |-> ocResponse.complete,
   body |-> IF ocResponse.complete THEN data ELSE <<>>]

\* The request is over, and the observer notes the exchange and its
\* response.
Remember ==
  /\ pc = "done"
  /\ remembered = {}
  /\ remembered' = {[exchange |-> Exchange, response |-> sent[1]]}
  /\ pc' = "idle"
  /\ req' = NoReq
  /\ outbound' = <<>>
  /\ ocResponse' = NoResponse
  /\ data' = <<>>
  /\ sent' = <<>>
  /\ attempts' = 0
  /\ UNCHANGED <<env, users>>

\* The process starts configured for production, with its credential.
StoreInit ==
  /\ Init
  /\ Truthy(env.OPEN_CORPORATES_KEY)
  /\ env.NODE_ENV = "production"

StoreNext ==
  \/ CompaniesSearchOf(StoreRequests)
  \/ CompanyDetailsOf(StoreRequests)
  \/ OfficersSearchOf(StoreRequests)
  \/ OcResponseOf(StoreStatuses, StoreBodies)
  \/ OcData
  \/ CompaniesSearchOnEnd
  \/ CompanyDetailsOnEnd
  \/ OfficersSearchOnEnd
  \/ OcError
  \/ GetUsers
  \/ CreateUser
  \/ DeleteUser
  \/ Remember
  \/ Finish

StoreSpec == StoreInit /\ [][StoreNext]_vars

-----------------------------------------------------------------------------
(* Properties                                                              *)

ProxyHandlers == {"companiesSearch", "companyDetails", "officersSearch"}

SearchHandlers == {"companiesSearch", "officersSearch"}

Is2xx(statusCode) == statusCode \in 200..299

\* The member k of a response body, null when the body has none.
Field(response, k) ==
  IF HasKey(response.body, k) THEN Get(response.body, k) ELSE JNull

IsSuccess(response) == Field(response, "success") = JBool(TRUE)

IsFailure(response) == Field(response, "success") = JBool(FALSE)

RECURSIVE ContainsKey(_, _)
\* Some object inside v, at any depth, has the key k.
ContainsKey(v, k) ==
  \/ HasKey(v, k)
  \/ \E i \in 1..Len(Children(v)) : ContainsKey(Children(v)[i], k)

\* The upstream answered in full, and its body was the JSON value B.
UpstreamAnswered == pc = "done" /\ ocResponse.complete

UpstreamBody == JSON_parse(data)

\* C1: the success body of the company search, company details and officer
\* search endpoints contains no object, at any depth, with the key
\* opencorporates_url.
C1_NoSensitiveKeyInSuccessBody ==
  \A i \in 1..Len(sent) :
    (Route(req) \in ProxyHandlers /\ IsSuccess(sent[i]))
      => ~ContainsKey(sent[i].body, "opencorporates_url")

\* C2: the query string of every outbound request carries api_token exactly
\* once, with the server-held credential as its value, whatever the caller
\* sent.
C2_CredentialExactlyOnce ==
  \A i \in 1..Len(outbound) :
    ValuesOf(outbound[i].path, "api_token") = <<env.OPEN_CORPORATES_KEY>>

NotConfiguredMessage ==
  Str("OpenCorporates API token not configured. Please set OPEN_CORPORATES_KEY in .env file")

IsNotConfigured(response) ==
  /\ response.status = 500
  /\ IsFailure(response)
  /\ Field(response, "message") = NotConfiguredMessage

\* C3 as stated: with the credential unset, every request to the three
\* endpoints, whatever its parameters, is answered 500 'API token not
\* configured'.
C3_UnsetCredentialAlways500 ==
  (pc = "done" /\ ~Truthy(env.OPEN_CORPORATES_KEY) /\ Route(req) \in ProxyHandlers)
    => (Len(sent) = 1 /\ IsNotConfigured(sent[1]))

\* Parameter validation, which the handlers run before the credential check.
PassesValidation(r) ==
  IF Route(r) \in SearchHandlers THEN Truthy(r.query.q)
  ELSE Truthy(r.path[3]) /\ Truthy(r.path[4])

\* C3 amended: with the credential unset, every request to the three
\* endpoints that passes parameter validation is answered 500 'API token not
\* configured', and no outbound request is made.
C3_UnsetCredential500AfterValidation ==
  (pc # "idle" /\ ~Truthy(env.OPEN_CORPORATES_KEY)
     /\ Route(req) \in ProxyHandlers /\ PassesValidation(req))
    => (pc = "done" /\ Len(sent) = 1 /\ IsNotConfigured(sent[1])
        /\ outbound = <<>>)

C3_Witness ==
  /\ pc = "done"
  /\ ~Truthy(env.OPEN_CORPORATES_KEY)
  /\ Route(req) = "companiesSearch"
  /\ req.query.q = <<"Apple">>
  /\ Len(sent) = 1
  /\ sent[1].status = 500

\* The body the details endpoint forwards for an upstream error, with the
\* given message.
ForwardedError(message, payload) ==
  JObj(<<Member("success", JBool(FALSE)),
         Member("message", Str(message)),
         Member("data", payload)>>)

\* The details endpoint has received, in full, a non-2xx answer with a JSON
\* body.
DetailsGotUpstreamError ==
  /\ UpstreamAnswered
  /\ Route(req) = "companyDetails"
  /\ ~Is2xx(ocResponse.statusCode)
  /\ UpstreamBody.ok

\* C4 as stated: on the details endpoint a non-2xx upstream answer with
\* status S and JSON body B is answered with status S and body
\* {success: false, message: "Error from API", data: B}.
C4_ForwardsErrorFromAPI ==
  DetailsGotUpstreamError
    => sent = <<[status |-> ocResponse.statusCode,
                 body |-> ForwardedError("Error from API", UpstreamBody.v)]>>

\* C4 amended: the same, with the message the handler sends, "Error from
\* OpenCorporates API".
C4_ForwardsErrorFromOpenCorporatesAPI ==
  DetailsGotUpstreamError
    => sent = <<[status |-> ocResponse.statusCode,
                 body |-> ForwardedError("Error from OpenCorporates API",
                                         UpstreamBody.v)]>>

C4_Witness ==
  /\ DetailsGotUpstreamError
  /\ ocResponse.statusCode = 404
  /\ UpstreamBody.v = JObj(<<Member("error", Str("not found"))>>)
  /\ Len(sent) = 1
  /\ sent[1].status = 404

\* C5: on the two search endpoints a non-2xx upstream answer with status S
\* is answered with status S, success=false and the upstream body in data;
\* success=true is never returned for a non-2xx upstream answer.
C5_SearchForwardsUpstreamError ==
  (UpstreamAnswered /\ Route(req) \in SearchHandlers
     /\ ~Is2xx(ocResponse.statusCode) /\ UpstreamBody.ok)
    => /\ Len(sent) = 1
       /\ sent[1].status = ocResponse.statusCode
       /\ IsFailure(sent[1])
       /\ Field(sent[1], "data") = UpstreamBody.v

IsOfficerLookup(r) ==
  /\ r.method = "GET"
  /\ Len(r.path) = 3
  /\ r.path[1] = Seg("api")
  /\ r.path[2] = Seg("officers")
  /\ r.path[3] \notin {<<>>, Seg("search")}

\* C7: GET /api/officers/:officer_id with a configured credential issues an
\* upstream request and never falls through to the 404 'Endpoint not found'
\* response.
C7_OfficerLookupServed ==
  (pc # "idle" /\ IsOfficerLookup(req) /\ Truthy(env.OPEN_CORPORATES_KEY))
    => /\ Len(outbound) = 1
       /\ \A i \in 1..Len(sent) :
            ~(sent[i].status = 404
              /\ Field(sent[i], "message") = Str("Endpoint not found"))

\* C8: on the two search endpoints a non-empty jurisdiction_code of the
\* caller is in the outbound query string, and an empty or absent one is not.
C8_JurisdictionCodeForwarded ==
  \A i \in 1..Len(outbound) :
    Route(req) \in SearchHandlers
      => ValuesOf(outbound[i].path, "jurisdiction_code")
           = IF Truthy(req.query.jurisdiction_code)
             THEN <<req.query.jurisdiction_code>>
             ELSE <<>>

\* The list a search endpoint extracts lives under results.<key>.
ListKey(handler) ==
  IF handler = "companiesSearch" THEN "companies" ELSE "officers"

\* The payload has no results.<key>: the target path selects nothing in it.
LacksTargetPath(payload, handler) ==
  ~(HasKey(payload, "results")
    /\ HasKey(Get(payload, "results"), ListKey(handler)))

\* C9: on the two search endpoints an upstream payload that is valid JSON
\* (object, array or primitive) and lacks the target path is answered with
\* success=true, count=0 and data=[], not with an error envelope.
C9_MissingPathIsEmptySuccess ==
  (UpstreamAnswered /\ Route(req) \in SearchHandlers /\ UpstreamBody.ok
     /\ LacksTargetPath(UpstreamBody.v, Route(req)))
    => /\ Len(sent) = 1
       /\ IsSuccess(sent[1])
       /\ Field(sent[1], "count") = JNum(0)
       /\ Field(sent[1], "data") = JArr(<<>>)

\* The length of the array under key k of the object v.
LengthOf(v, k) == Len(Get(v, k).a)

\* C10: in every success envelope each count equals the length of the list
\* it describes: count = length(data) on the search endpoints, and
\* counts.officers, counts.beneficialOwners, counts.filings equal the lengths
\* of data.officers, data.beneficialOwners, data.filings on the details
\* endpoint.
C10_CountsMatchLists ==
  \A i \in 1..Len(sent) :
    IsSuccess(sent[i]) =>
      /\ Route(req) \in SearchHandlers
           => Field(sent[i], "count") = JNum(LengthOf(sent[i].body, "data"))
      /\ Route(req) = "companyDetails"
           => LET d == Field(sent[i], "data")
              IN \A k \in {"officers", "beneficialOwners", "filings"} :
                   Get(Get(d, "counts"), k) = JNum(LengthOf(d, k))

C10_Witness ==
  /\ pc = "done"
  /\ Route(req) = "companyDetails"
  /\ Len(sent) = 1
  /\ IsSuccess(sent[1])
  /\ LET d == Field(sent[1], "data")
     IN /\ LengthOf(d, "officers") = 1
        /\ LengthOf(d, "beneficialOwners") = 2
        /\ LengthOf(d, "filings") = 0
        /\ Get(d, "counts") = Counts(<<1>>, <<1, 2>>, <<>>)

\* The response carries the member error, the detail of what went wrong.
CarriesDetail(response) == HasKey(response.body, "error")

\* C11: every response with a status of 400 or above has success=false and
\* a message, every response with success=false has a message, and a
\* response carries an error detail, a string, only when the service is not
\* in production mode.
C11_FailureEnvelope ==
  \A i \in 1..Len(sent) :
    /\ sent[i].status >= 400 => IsFailure(sent[i])
    /\ IsFailure(sent[i]) => Field(sent[i], "message").t = "str"
    /\ CarriesDetail(sent[i])
         => /\ env.NODE_ENV # "production"
            /\ Field(sent[i], "error").t = "str"

\* In production mode the error-handling middleware answers a handler that
\* threw, without the detail.
C11_Witness ==
  /\ pc = "done"
  /\ env.NODE_ENV = "production"
  /\ Route(req) = "companyDetails"
  /\ outbound = <<>>
  /\ Len(sent) = 1
  /\ sent[1].status = 500
  /\ Field(sent[1], "message") = Str("Internal server error")
  /\ ~CarriesDetail(sent[1])

\* C12: for every request to the three endpoints that passes validation,
\* with the credential set, exactly one outbound GET is issued from the
\* moment the handler has run.
C12_ExactlyOneOutboundGet ==
  (pc # "idle" /\ Route(req) \in ProxyHandlers /\ PassesValidation(req)
     /\ Truthy(env.OPEN_CORPORATES_KEY))
    => (Len(outbound) = 1 /\ outbound[1].method = "GET")

\* The upstream failed: the connection broke, or the body that arrived is
\* not JSON.
UpstreamFailed ==
  /\ pc = "done"
  /\ outbound # <<>>
  /\ ~ocResponse.complete \/ ~UpstreamBody.ok

\* Every upstream failure is answered with a failure response.
UpstreamFailureSurfaced ==
  UpstreamFailed => (Len(sent) = 1 /\ sent[1].status = 500 /\ IsFailure(sent[1]))

\* The 400 with which a handler refuses a request that lacks a parameter.
IsValidationFailure(response) ==
  response.status = 400 /\ IsFailure(response)

\* C14: when a request to the three endpoints is answered with the 400
\* validation envelope or the 500 missing-credential envelope, no outbound
\* request has been issued for it.
C14_ShortCircuitBeforeUpstream ==
  \A i \in 1..Len(sent) :
    (Route(req) \in ProxyHandlers
       /\ (IsValidationFailure(sent[i]) \/ IsNotConfigured(sent[i])))
      => outbound = <<>>

C14_Witness ==
  /\ pc = "done"
  /\ Route(req) = "officersSearch"
  /\ Truthy(req.query.q)
  /\ Len(sent) = 1
  /\ IsNotConfigured(sent[1])
  /\ outbound = <<>>

\* C16: on the details endpoint, an upstream answer with a status in
\* 200..299 and a body that is a JSON object gets the success envelope, never the
\* forwarded error.
C16_Any2xxIsSuccess ==
  (UpstreamAnswered /\ Route(req) = "companyDetails"
     /\ Is2xx(ocResponse.statusCode) /\ UpstreamBody.ok /\ IsObj(UpstreamBody.v))
    => /\ Len(sent) = 1
       /\ IsSuccess(sent[1])
       /\ sent[1].body # ForwardedError("Error from OpenCorporates API",
                                        UpstreamBody.v)

\* At most one response reaches the caller.
AtMostOneResponseSent == Len(sent) <= 1

\* C15: for any order of the data, end and error events of the upstream
\* exchange, at most one callback of a request calls res.json: no second
\* response is attempted.
C15_NoSecondResponseAttempted == attempts <= 1

\* C17: after any sequence of creations and deletions of users, no two
\* users of the collection have the same id.
C17_UserIdsDistinct ==
  \A i, j \in 1..Len(users) : i # j => users[i].id # users[j].id

\* An exchange like the one in progress was noted earlier.
Remembered == {m \in remembered : m.exchange = Exchange}

\* C13 as stated: the response to any request is the one an earlier request
\* with the same inputs and the same upstream answer got, whatever was
\* handled in between.
C13_ResponseIndependentOfHistory ==
  (pc = "done" /\ sent # <<>>)
    => \A m \in Remembered : m.response = sent[1]

\* C13 amended: the response of the company search, company details and
\* officer search endpoints is the one an earlier request with the same
\* inputs and the same upstream answer got, whatever was handled in
\* between, changes of the users collection included.
C13_ProxyResponseIndependentOfHistory ==
  (pc = "done" /\ sent # <<>> /\ Route(req) \in ProxyHandlers)
    => \A m \in Remembered : m.response = sent[1]

\* A details request is answered as an earlier one was, after the users
\* collection has changed.
C13_Witness ==
  /\ UpstreamAnswered
  /\ Route(req) = "companyDetails"
  /\ Remembered # {}
  /\ IsSuccess(sent[1])
  /\ Len(users) = 1

====
